---------------------------- MODULE Spec2Model ----------------------------
(***************************************************************************)
(* A model of net/netfilter/nft_tunnel.c: the "tunnel" read expression     *)
(* (the nft_tunnel_get functions) and the tunnel object (the               *)
(* nft_tunnel_obj functions).                                              *)
(*                                                                         *)
(* Conventions.                                                            *)
(*  - A netlink attribute table tb[] is a record; tb[X] is a set: {} when  *)
(*    the attribute is absent, {v} when it is present with payload v.  A   *)
(*    nested attribute's payload is again such a record.  Attributes are   *)
(*    identified by the symbolic name the code uses.                       *)
(*  - A scalar payload is the number its bytes spell in network order.     *)
(*    A C variable of type __be16/__be32 is modelled by the number the CPU *)
(*    reads from it, so it depends on the byte order of the build.         *)
(*  - The 64-bit tunnel id is the pair [hi, lo] of the 32-bit halves of    *)
(*    the number the CPU reads.                                            *)
(***************************************************************************)
EXTENDS Integers, FiniteSets, Sequences, TLC

VARIABLES
    build,    \* the build: byte order, CONFIG_DST_CACHE
    objs,     \* struct nft_tunnel_obj of every object, with its lifecycle
    heap,     \* every struct metadata_dst: allocation state, refcount, tun_info
    skb,      \* per packet: the dst it holds (0: none)
    pc,       \* per packet: where its nft_tunnel_obj_eval stands
    expr,     \* struct nft_tunnel of the read expression
    nlmsg,    \* the attributes the last dump put into its message
    uaf,      \* a freed metadata_dst was touched
    last      \* the operation that led to this state, with its inputs and,
              \* for a rule evaluation, its struct nft_regs

vars == <<build, objs, heap, skb, pc, expr, nlmsg, uaf, last>>

-----------------------------------------------------------------------------
(* Bounds of the model *)

NObjs == 2
NPkts == 2
MaxId == 2
WrapSpan == 2
RxTunId == 1

Objs == 1..NObjs
Pkts == 1..NPkts

(* the memory of the records: one place for the metadata each packet may  *)
(* arrive with, one for the record each object allocates                   *)
Recs == 1..(NPkts + NObjs)
RxRec(p) == p
ObjRec(o) == NPkts + o

-----------------------------------------------------------------------------
(* Program constants *)

NFT_TUNNEL_PATH == 0
NFT_TUNNEL_ID == 1
NFT_TUNNEL_MODE_NONE == 0
NFT_TUNNEL_MODE_RX == 1
NFT_TUNNEL_MODE_TX == 2
NFT_TUNNEL_MODE_MAX == 2
NFT_TUNNEL_F_ZERO_CSUM_TX == 1
NFT_TUNNEL_F_DONT_FRAGMENT == 2
NFT_TUNNEL_F_SEQ_NUMBER == 4
NFT_TUNNEL_F_MASK == 7
ERSPAN_VERSION == 1
ERSPAN_VERSION2 == 2
U8_MAX == 255
SizeofVxlanMetadata == 4
SizeofErspanMetadata == 8

-----------------------------------------------------------------------------
(* Attributes *)

Has(a) == a # {}
Val(a) == CHOOSE v \in a : TRUE
Opt(S) == {{}} \cup {{v} : v \in S}

(* x & b # 0 for a one-bit mask b *)
BitSet(x, b) == (x \div b) % 2 = 1

(* x & ~m for a mask m = 2^k - 1 *)
AndNot(x, m) == x - (x % (m + 1))

-----------------------------------------------------------------------------
(* Byte order *)

bswap16(x) == (x % 256) * 256 + ((x \div 256) % 256)

bswap32(x) ==
    (x % 256) * 16777216 + ((x \div 256) % 256) * 65536
      + ((x \div 65536) % 256) * 256 + ((x \div 16777216) % 256)

ntohl(x) == IF build.le THEN bswap32(x) ELSE x
htonl(x) == IF build.le THEN bswap32(x) ELSE x
htons(x) == IF build.le THEN bswap16(x) ELSE x

(* the CPU's reading of a __be32 / __be16 payload, and back *)
nla_get_be32(a) == IF build.le THEN bswap32(Val(a)) ELSE Val(a)
nla_get_be16(a) == IF build.le THEN bswap16(Val(a)) ELSE Val(a)
nla_get_u8(a) == Val(a)
nla_put_be32(v) == {IF build.le THEN bswap32(v) ELSE v}
nla_put_be16(v) == {IF build.le THEN bswap16(v) ELSE v}
nla_put_u8(v) == {v % 256}

key32_to_tunnel_id(key) ==
    IF build.le THEN [hi |-> key, lo |-> 0] ELSE [hi |-> 0, lo |-> key]

tunnel_id_to_key32(tun_id) == IF build.le THEN tun_id.hi ELSE tun_id.lo

-----------------------------------------------------------------------------
(* struct ip_tunnel_info after memset(&info, 0, sizeof(info)) *)

ZeroInfo ==
    [mode |-> {},
     tun_id |-> [hi |-> 0, lo |-> 0],
     ipv4 |-> [src |-> 0, dst |-> 0],
     ipv6 |-> [src |-> 0, dst |-> 0],
     label |-> 0,
     tp_src |-> 0, tp_dst |-> 0,
     tun_flags |-> {},
     tos |-> 0, ttl |-> 0,
     options_len |-> 0,
     options |-> [gbp |-> 0, version |-> 0, index |-> 0, hwid |-> 0, dir |-> 0]]

(* struct nft_tunnel_opts of a zeroed object *)
ZeroOpts ==
    [u |-> [gbp |-> 0, version |-> 0, index |-> 0, hwid |-> 0, dir |-> 0],
     len |-> 0,
     flags |-> {}]

nft_tunnel_obj_ip_init(attr, info) ==
    LET tb == Val(attr) IN
    IF ~Has(tb.IP_DST) THEN [err |-> "EINVAL", info |-> info]
    ELSE
      LET i1 == IF Has(tb.IP_SRC)
                THEN [info EXCEPT !.ipv4.src = nla_get_be32(tb.IP_SRC)]
                ELSE info
          i2 == [i1 EXCEPT !.ipv4.dst = nla_get_be32(tb.IP_DST)]
      IN [err |-> "OK", info |-> i2]

nft_tunnel_obj_ip6_init(attr, info) ==
    LET tb == Val(attr) IN
    IF ~Has(tb.IP6_DST) THEN [err |-> "EINVAL", info |-> info]
    ELSE
      LET i1 == IF Has(tb.IP6_SRC)
                THEN [info EXCEPT !.ipv6.src = Val(tb.IP6_SRC)]
                ELSE info
          i2 == [i1 EXCEPT !.ipv6.dst = Val(tb.IP6_DST)]
          i3 == IF Has(tb.IP6_FLOWLABEL)
                THEN [i2 EXCEPT !.label = nla_get_be32(tb.IP6_FLOWLABEL)]
                ELSE i2
      IN [err |-> "OK", info |-> [i3 EXCEPT !.mode = @ \cup {"IPV6"}]]

nft_tunnel_obj_vxlan_init(attr, opts) ==
    LET tb == Val(attr) IN
    IF ~Has(tb.VXLAN_GBP) THEN [err |-> "EINVAL", opts |-> opts]
    ELSE [err |-> "OK",
          opts |-> [opts EXCEPT !.u.gbp = ntohl(nla_get_be32(tb.VXLAN_GBP)),
                                !.len = SizeofVxlanMetadata,
                                !.flags = {"VXLAN_OPT"}]]

(* set_hwid() keeps the six bits of hwid_upper:2 and hwid:4; dir is dir:1 *)
nft_tunnel_obj_erspan_init(attr, opts) ==
    LET tb == Val(attr) IN
    IF ~Has(tb.ERSPAN_VERSION) THEN [err |-> "EINVAL", opts |-> opts]
    ELSE
      LET version == ntohl(nla_get_be32(tb.ERSPAN_VERSION)) IN
      CASE version = ERSPAN_VERSION ->
             IF ~Has(tb.ERSPAN_V1_INDEX) THEN [err |-> "EINVAL", opts |-> opts]
             ELSE [err |-> "OK",
                   opts |-> [opts EXCEPT
                               !.u.index = nla_get_be32(tb.ERSPAN_V1_INDEX),
                               !.u.version = version,
                               !.len = SizeofErspanMetadata,
                               !.flags = {"ERSPAN_OPT"}]]
        [] version = ERSPAN_VERSION2 ->
             IF ~Has(tb.ERSPAN_V2_DIR) \/ ~Has(tb.ERSPAN_V2_HWID)
             THEN [err |-> "EINVAL", opts |-> opts]
             ELSE [err |-> "OK",
                   opts |-> [opts EXCEPT
                               !.u.hwid = nla_get_u8(tb.ERSPAN_V2_HWID) % 64,
                               !.u.dir = nla_get_u8(tb.ERSPAN_V2_DIR) % 2,
                               !.u.version = version,
                               !.len = SizeofErspanMetadata,
                               !.flags = {"ERSPAN_OPT"}]]
        [] OTHER -> [err |-> "EOPNOTSUPP", opts |-> opts]

nft_tunnel_obj_opts_init(attr, opts) ==
    LET tb == Val(attr) IN
    IF Has(tb.OPTS_VXLAN) THEN nft_tunnel_obj_vxlan_init(tb.OPTS_VXLAN, opts)
    ELSE IF Has(tb.OPTS_ERSPAN)
         THEN nft_tunnel_obj_erspan_init(tb.OPTS_ERSPAN, opts)
         ELSE [err |-> "EOPNOTSUPP", opts |-> opts]

(* nft_tunnel_obj_init, the underlay: lines 361-371 *)
ObjInitUnderlay(tb, info) ==
    IF Has(tb.IP) THEN nft_tunnel_obj_ip_init(tb.IP, info)
    ELSE IF Has(tb.IP6) THEN nft_tunnel_obj_ip6_init(tb.IP6, info)
         ELSE [err |-> "EINVAL", info |-> info]

(* nft_tunnel_obj_init, the flags attribute: lines 380-393 *)
ObjInitFlags(tb, info) ==
    IF ~Has(tb.FLAGS) THEN [err |-> "OK", info |-> info]
    ELSE
      LET tun_flags == ntohl(nla_get_be32(tb.FLAGS)) IN
      IF AndNot(tun_flags, NFT_TUNNEL_F_MASK) # 0
      THEN [err |-> "EOPNOTSUPP", info |-> info]
      ELSE
        LET f1 == IF BitSet(tun_flags, NFT_TUNNEL_F_ZERO_CSUM_TX)
                  THEN info.tun_flags \ {"CSUM"} ELSE info.tun_flags
            f2 == IF BitSet(tun_flags, NFT_TUNNEL_F_DONT_FRAGMENT)
                  THEN f1 \cup {"DONT_FRAGMENT"} ELSE f1
            f3 == IF BitSet(tun_flags, NFT_TUNNEL_F_SEQ_NUMBER)
                  THEN f2 \cup {"SEQ"} ELSE f2
        IN [err |-> "OK", info |-> [info EXCEPT !.tun_flags = f3]]

(* nft_tunnel_obj_init, tos and ttl: lines 394-399 *)
ObjInitTosTtl(tb, info) ==
    LET i1 == IF Has(tb.TOS) THEN [info EXCEPT !.tos = nla_get_u8(tb.TOS)]
              ELSE info
    IN IF Has(tb.TTL) THEN [i1 EXCEPT !.ttl = nla_get_u8(tb.TTL)]
       ELSE [i1 EXCEPT !.ttl = U8_MAX]

(* the key without IP_TUNNEL_INFO_TX *)
ObjInitKeyNoTx(tb) ==
    [ZeroInfo EXCEPT
       !.tun_id = key32_to_tunnel_id(nla_get_be32(tb.ID)),
       !.tun_flags = {"KEY", "CSUM", "NOCACHE"}]

(* nft_tunnel_obj_init, lines 356-359: the zeroed info gets its mode, the  *)
(* tunnel id and the flags every key has                                    *)
ObjInitKey(tb) ==
    [ZeroInfo EXCEPT
       !.mode = {"TX"},
       !.tun_id = key32_to_tunnel_id(nla_get_be32(tb.ID)),
       !.tun_flags = {"KEY", "CSUM", "NOCACHE"}]

(* nft_tunnel_obj_init up to the allocation: lines 353-406.  opts is       *)
(* priv->opts, which nft_tunnel_obj_opts_init writes in place.             *)
ObjInitParse(tb, opts) ==
    IF ~Has(tb.ID) THEN [err |-> "EINVAL", info |-> ZeroInfo, opts |-> opts]
    ELSE
      LET i0 == ObjInitKey(tb)
          u == ObjInitUnderlay(tb, i0)
      IN
      IF u.err # "OK" THEN [err |-> u.err, info |-> u.info, opts |-> opts]
      ELSE
        LET i1 == IF Has(tb.SPORT)
                  THEN [u.info EXCEPT !.tp_src = nla_get_be16(tb.SPORT)]
                  ELSE u.info
            i2 == IF Has(tb.DPORT)
                  THEN [i1 EXCEPT !.tp_dst = nla_get_be16(tb.DPORT)]
                  ELSE i1
            f == ObjInitFlags(tb, i2)
        IN
        IF f.err # "OK" THEN [err |-> f.err, info |-> f.info, opts |-> opts]
        ELSE
          LET i3 == ObjInitTosTtl(tb, f.info) IN
          IF ~Has(tb.OPTS) THEN [err |-> "OK", info |-> i3, opts |-> opts]
          ELSE
            LET o == nft_tunnel_obj_opts_init(tb.OPTS, opts) IN
            [err |-> o.err, info |-> i3, opts |-> o.opts]

(* ip_tunnel_info_opts_set(): the options and their kind go into the record *)
ip_tunnel_info_opts_set(info, opts) ==
    [info EXCEPT !.options_len = opts.len,
                 !.options = opts.u,
                 !.tun_flags = @ \cup opts.flags]


-----------------------------------------------------------------------------
(* Dump *)

NoOptsAttrs ==
    [OPTS_VXLAN |-> {}, OPTS_ERSPAN |-> {},
     VXLAN_GBP |-> {}, ERSPAN_V1_INDEX |-> {},
     ERSPAN_V2_HWID |-> {}, ERSPAN_V2_DIR |-> {}]


(* the IP or the IP6 nest, by the IPv6 mode bit *)
nft_tunnel_ip_dump(info) ==
    IF "IPV6" \in info.mode
    THEN [IP |-> {},
          IP6 |-> {[IP6_SRC |-> {info.ipv6.src},
                    IP6_DST |-> {info.ipv6.dst},
                    IP6_FLOWLABEL |-> nla_put_be32(info.label)]}]
    ELSE [IP |-> {[IP_SRC |-> nla_put_be32(info.ipv4.src),
                   IP_DST |-> nla_put_be32(info.ipv4.dst)]},
          IP6 |-> {}]

(* the OPTS nest: always started and ended; the VXLAN and ERSPAN values go *)
(* into it directly *)
nft_tunnel_opts_dump(priv) ==
    LET opts == priv.opts IN
    IF "VXLAN_OPT" \in opts.flags
    THEN {[NoOptsAttrs EXCEPT !.VXLAN_GBP = nla_put_be32(htonl(opts.u.gbp))]}
    ELSE IF "ERSPAN_OPT" \in opts.flags
    THEN CASE opts.u.version = ERSPAN_VERSION ->
                {[NoOptsAttrs EXCEPT
                    !.ERSPAN_V1_INDEX = nla_put_be32(opts.u.index)]}
           [] opts.u.version = ERSPAN_VERSION2 ->
                {[NoOptsAttrs EXCEPT
                    !.ERSPAN_V2_HWID = nla_put_u8(opts.u.hwid),
                    !.ERSPAN_V2_DIR = nla_put_u8(opts.u.dir)]}
           [] OTHER -> {NoOptsAttrs}
    ELSE {NoOptsAttrs}

nft_tunnel_ports_dump(info) ==
    [SPORT |-> nla_put_be16(htons(info.tp_src)),
     DPORT |-> nla_put_be16(htons(info.tp_dst))]

nft_tunnel_flags_dump(info) ==
    LET f1 == IF "DONT_FRAGMENT" \in info.tun_flags
              THEN NFT_TUNNEL_F_DONT_FRAGMENT ELSE 0
        f2 == IF "CSUM" \notin info.tun_flags
              THEN NFT_TUNNEL_F_ZERO_CSUM_TX ELSE 0
        f3 == IF "SEQ" \in info.tun_flags
              THEN NFT_TUNNEL_F_SEQ_NUMBER ELSE 0
    IN nla_put_be32(htonl(f1 + f2 + f3))

(* the attributes nft_tunnel_obj_dump puts when every nla_put succeeds *)
ObjDumpAttrs(priv, info) ==
    LET ip == nft_tunnel_ip_dump(info)
        ports == nft_tunnel_ports_dump(info)
    IN [ID |-> nla_put_be32(tunnel_id_to_key32(info.tun_id)),
        IP |-> ip.IP,
        IP6 |-> ip.IP6,
        SPORT |-> ports.SPORT,
        DPORT |-> ports.DPORT,
        FLAGS |-> nft_tunnel_flags_dump(info),
        TOS |-> nla_put_u8(info.tos),
        TTL |-> nla_put_u8(info.ttl),
        OPTS |-> nft_tunnel_opts_dump(priv)]

-----------------------------------------------------------------------------
(* struct metadata_dst: allocation and reference counting *)

NoRec == [st |-> "unalloc", refcnt |-> 0, frees |-> 0, tun_info |-> ZeroInfo]

(* a fresh record holds one reference, its creator's *)
metadata_dst_alloc(h, r) ==
    [h EXCEPT ![r] = [st |-> "live", refcnt |-> 1, frees |-> 0,
                      tun_info |-> ZeroInfo]]

dst_hold(h, r) == [h EXCEPT ![r].refcnt = @ + 1]

(* the last reference released frees the record *)
dst_release(h, r) ==
    IF h[r].refcnt <= 1
    THEN [h EXCEPT ![r].refcnt = 0, ![r].st = "freed", ![r].frees = @ + 1]
    ELSE [h EXCEPT ![r].refcnt = @ - 1]

(* the owner gives up its reference *)
metadata_dst_free(h, r) == dst_release(h, r)

Touch(r) == uaf \/ heap[r].st # "live"

(* skb_tunnel_info(): the tun_info of the metadata the packet holds *)
skb_tunnel_info(p) ==
    IF skb[p] = 0 THEN {} ELSE {heap[skb[p]].tun_info}


-----------------------------------------------------------------------------
(* The tunnel object *)

(* nft_tunnel_obj_init when dst_cache_init fails, without the free *)
ObjInitCacheFailLeak(h, md) == metadata_dst_alloc(h, md)

(* nft_tunnel_obj_init when dst_cache_init fails, lines 408-418: the record *)
(* just allocated is freed                                                  *)
ObjInitCacheFail(h, md) == metadata_dst_free(metadata_dst_alloc(h, md), md)

(* what is remembered of a call of nft_tunnel_obj_init: its result, the    *)
(* records it allocated, and whether its configuration held both underlay  *)
(* nests, or an options nest with both option kinds                        *)
InitDone(tb, err, allocated) ==
    [op |-> "obj_init", err |-> err, allocated |-> allocated,
     ip_and_ip6 |-> Has(tb.IP) /\ Has(tb.IP6),
     vxlan_and_erspan |-> Has(tb.OPTS) /\ Has(Val(tb.OPTS).OPTS_VXLAN)
                            /\ Has(Val(tb.OPTS).OPTS_ERSPAN)]

(* nft_tunnel_obj_init.  allocOk and cacheOk are whether metadata_dst_alloc *)
(* and dst_cache_init succeed.  An object whose init failed is released by  *)
(* the caller: it is "Failed" for good.  id_attr remembers the              *)
(* NFTA_TUNNEL_KEY_ID payload the object was configured with.               *)
nft_tunnel_obj_init(o, tb, allocOk, cacheOk) ==
    /\ objs[o].state = "Unconfigured"
    /\ LET p == ObjInitParse(tb, objs[o].opts)
           md == ObjRec(o)
       IN
       IF p.err # "OK"
       THEN /\ objs' = [objs EXCEPT ![o].state = "Failed"]
            /\ heap' = heap
            /\ last' = InitDone(tb, p.err, {})
       ELSE IF ~allocOk
       THEN /\ objs' = [objs EXCEPT ![o].state = "Failed", ![o].opts = p.opts]
            /\ heap' = heap
            /\ last' = InitDone(tb, "ENOMEM", {})
       ELSE IF build.dst_cache /\ ~cacheOk
       THEN /\ objs' = [objs EXCEPT ![o].state = "Failed", ![o].opts = p.opts]
            /\ heap' = ObjInitCacheFail(heap, md)
            /\ last' = InitDone(tb, "ENOMEM", {md})
       ELSE /\ objs' = [objs EXCEPT ![o] = [state |-> "Ready", md |-> md,
                                            opts |-> p.opts,
                                            id_attr |-> tb.ID]]
            /\ heap' = [metadata_dst_alloc(heap, md) EXCEPT
                          ![md].tun_info = ip_tunnel_info_opts_set(p.info, p.opts)]
            /\ last' = InitDone(tb, "OK", {md})
    /\ UNCHANGED <<build, pc, skb, expr, nlmsg, uaf>>

(* nft_tunnel_obj_dump.  room is whether the message has room for every     *)
(* attribute; without it the dump fails and the message is dropped.         *)
nft_tunnel_obj_dump(o, room) ==
    /\ objs[o].state = "Ready"
    /\ nlmsg' = IF room
                THEN {[obj |-> o,
                       tb |-> ObjDumpAttrs(objs[o], heap[objs[o].md].tun_info)]}
                ELSE {}
    /\ last' = [op |-> "obj_dump", obj |-> o,
                err |-> IF room THEN "OK" ELSE "EMSGSIZE"]
    /\ UNCHANGED <<build, pc, objs, heap, skb, expr, uaf>>

(* nft_tunnel_obj_destroy *)
nft_tunnel_obj_destroy(o) ==
    /\ objs[o].state = "Ready"
    /\ uaf' = Touch(objs[o].md)
    /\ heap' = metadata_dst_free(heap, objs[o].md)
    /\ objs' = [objs EXCEPT ![o].state = "Destroyed"]
    /\ last' = [op |-> "other"]
    /\ UNCHANGED <<build, pc, skb, expr, nlmsg>>

(* skb_dst_drop(): the packet gives up the dst it holds, if any *)
skb_dst_drop(h, p) == IF skb[p] = 0 THEN h ELSE dst_release(h, skb[p])

(* nft_tunnel_obj_eval without its dst_hold *)
ObjEvalNoHold(p, o) ==
    /\ objs[o].state = "Ready"
    /\ uaf' = (IF skb[p] = 0 THEN uaf ELSE Touch(skb[p]))
    /\ heap' = skb_dst_drop(heap, p)
    /\ skb' = [skb EXCEPT ![p] = objs[o].md]
    /\ last' = [op |-> "other"]
    /\ UNCHANGED <<build, pc, objs, expr, nlmsg>>

(* nft_tunnel_obj_eval: the packet drops its dst, the object's record gets *)
(* one more reference and becomes the packet's dst.  The record is looked  *)
(* at after the drop, which may have freed it.                              *)
nft_tunnel_obj_eval(p, o) ==
    /\ objs[o].state = "Ready"
    /\ LET h1 == skb_dst_drop(heap, p) IN
       /\ uaf' = (\/ IF skb[p] = 0 THEN uaf ELSE Touch(skb[p])
                  \/ h1[objs[o].md].st # "live")
       /\ heap' = dst_hold(h1, objs[o].md)
    /\ skb' = [skb EXCEPT ![p] = objs[o].md]
    /\ last' = [op |-> "other"]
    /\ UNCHANGED <<build, pc, objs, expr, nlmsg>>

(* nft_tunnel_obj_eval step by step, as it runs next to the evals of other *)
(* packets: pc[p] is where the eval of packet p stands, and for which      *)
(* object it runs                                                          *)
Idle == [at |-> "idle", obj |-> 0]

(* line 434: skb_dst_drop() releases the packet's dst and clears its slot *)
EvalDrop(p, o) ==
    /\ pc[p] = Idle
    /\ objs[o].state = "Ready"
    /\ uaf' = (IF skb[p] = 0 THEN uaf ELSE Touch(skb[p]))
    /\ heap' = skb_dst_drop(heap, p)
    /\ skb' = [skb EXCEPT ![p] = 0]
    /\ pc' = [pc EXCEPT ![p] = [at |-> "hold", obj |-> o]]
    /\ last' = [op |-> "other"]
    /\ UNCHANGED <<build, objs, expr, nlmsg>>

(* the eval goes on without its dst_hold() *)
EvalHoldSkipped(p) ==
    /\ pc[p].at = "hold"
    /\ pc' = [pc EXCEPT ![p].at = "set"]
    /\ last' = [op |-> "other"]
    /\ UNCHANGED <<build, objs, heap, skb, expr, nlmsg, uaf>>

(* line 435: dst_hold() on the object's record *)
EvalHold(p) ==
    /\ pc[p].at = "hold"
    /\ uaf' = Touch(objs[pc[p].obj].md)
    /\ heap' = dst_hold(heap, objs[pc[p].obj].md)
    /\ pc' = [pc EXCEPT ![p].at = "set"]
    /\ last' = [op |-> "other"]
    /\ UNCHANGED <<build, objs, skb, expr, nlmsg>>

(* line 436: skb_dst_set() makes the record the packet's dst *)
EvalSet(p) ==
    /\ pc[p].at = "set"
    /\ skb' = [skb EXCEPT ![p] = objs[pc[p].obj].md]
    /\ pc' = [pc EXCEPT ![p] = Idle]
    /\ last' = [op |-> "other"]
    /\ UNCHANGED <<build, objs, heap, expr, nlmsg, uaf>>

-----------------------------------------------------------------------------
(* The packets' side: what the stack does with a packet's metadata *)

(* the metadata a tunnel device attaches to a packet it receives: not in  *)
(* TX mode, with the tunnel id of the packet's header                      *)
RxInfo(id) ==
    [ZeroInfo EXCEPT !.tun_id = key32_to_tunnel_id(nla_get_be32({id})),
                     !.tun_flags = {"KEY"}]

(* the packet is done with its metadata: skb_dst_drop() on its way out *)
PktRelease(p) ==
    /\ skb[p] # 0
    /\ uaf' = Touch(skb[p])
    /\ heap' = dst_release(heap, skb[p])
    /\ skb' = [skb EXCEPT ![p] = 0]
    /\ last' = [op |-> "other"]
    /\ UNCHANGED <<build, pc, objs, expr, nlmsg>>


-----------------------------------------------------------------------------
(* The read expression *)

(* priv->key and priv->mode are bit-fields of width 8 *)
Field8(x) == x % 256

(* nft_reg_store8(): the register is zeroed, then its first byte written; *)
(* nft_reg_load8() reads that byte                                        *)
nft_reg_store8(v) == IF build.le THEN v ELSE v * 16777216
nft_reg_load8(w) == IF build.le THEN w % 256 ELSE w \div 16777216

(* nft_tunnel_get_init.  regOk is whether nft_validate_register_store      *)
(* accepts the destination register for the value's length.  A failed      *)
(* expression is discarded.                                                 *)
nft_tunnel_get_init(tb, regOk) ==
    /\ ~expr.set
    /\ LET key == Field8(ntohl(nla_get_be32(tb.KEY)))
           mode == IF Has(tb.MODE)
                   THEN Field8(ntohl(nla_get_be32(tb.MODE)))
                   ELSE NFT_TUNNEL_MODE_NONE
           err == IF ~Has(tb.KEY) \/ ~Has(tb.DREG) THEN "EINVAL"
                  ELSE IF key \notin {NFT_TUNNEL_PATH, NFT_TUNNEL_ID}
                       THEN "EOPNOTSUPP"
                  ELSE IF mode > NFT_TUNNEL_MODE_MAX THEN "EOPNOTSUPP"
                  ELSE IF ~regOk THEN "ERANGE"
                  ELSE "OK"
       IN /\ expr' = IF err = "OK"
                     THEN [set |-> TRUE, key |-> key, mode |-> mode]
                     ELSE expr
          /\ last' = [op |-> "get_init", tb |-> tb, err |-> err]
    /\ UNCHANGED <<build, pc, objs, heap, skb, nlmsg, uaf>>

(* the directionality test with RX and TX taken for each other *)
ModeMatchesSwapped(priv, tun_info) ==
    \/ priv.mode = NFT_TUNNEL_MODE_NONE
    \/ priv.mode = NFT_TUNNEL_MODE_RX /\ "TX" \in tun_info.mode
    \/ priv.mode = NFT_TUNNEL_MODE_TX /\ "TX" \notin tun_info.mode

(* the directionality test of nft_tunnel_get_eval: lines 37-41 and 51-55 *)
ModeMatches(priv, tun_info) ==
    \/ priv.mode = NFT_TUNNEL_MODE_NONE
    \/ priv.mode = NFT_TUNNEL_MODE_RX /\ "TX" \notin tun_info.mode
    \/ priv.mode = NFT_TUNNEL_MODE_TX /\ "TX" \in tun_info.mode

(* nft_tunnel_get_eval breaking the rule, for both facts, when the packet *)
(* has no metadata                                                        *)
GetEvalRegsBreak(priv, ti, r) ==
    CASE priv.key \in {NFT_TUNNEL_PATH, NFT_TUNNEL_ID} /\ ~Has(ti) ->
           [r EXCEPT !.verdict = "NFT_BREAK"]
      [] priv.key = NFT_TUNNEL_PATH /\ Has(ti) ->
           IF ModeMatches(priv, Val(ti))
           THEN [r EXCEPT !.data = nft_reg_store8(1)]
           ELSE [r EXCEPT !.data = nft_reg_store8(0)]
      [] priv.key = NFT_TUNNEL_ID /\ Has(ti) ->
           IF ModeMatches(priv, Val(ti))
           THEN [r EXCEPT
                   !.data = ntohl(tunnel_id_to_key32(Val(ti).tun_id))]
           ELSE [r EXCEPT !.verdict = "NFT_BREAK"]
      [] OTHER -> [r EXCEPT !.verdict = "NFT_BREAK", !.warned = TRUE]

(* nft_tunnel_get_eval on registers r; ti is skb_tunnel_info(pkt->skb) *)
GetEvalRegs(priv, ti, r) ==
    CASE priv.key = NFT_TUNNEL_PATH ->
           IF ~Has(ti) THEN [r EXCEPT !.data = nft_reg_store8(0)]
           ELSE IF ModeMatches(priv, Val(ti))
                THEN [r EXCEPT !.data = nft_reg_store8(1)]
                ELSE [r EXCEPT !.data = nft_reg_store8(0)]
      [] priv.key = NFT_TUNNEL_ID ->
           IF ~Has(ti) THEN [r EXCEPT !.verdict = "NFT_BREAK"]
           ELSE IF ModeMatches(priv, Val(ti))
                THEN [r EXCEPT
                        !.data = ntohl(tunnel_id_to_key32(Val(ti).tun_id))]
                ELSE [r EXCEPT !.verdict = "NFT_BREAK"]
      [] OTHER -> [r EXCEPT !.verdict = "NFT_BREAK", !.warned = TRUE]

(* one rule evaluation reaching the expression: the registers hold data0  *)
(* and the verdict NFT_CONTINUE when it starts                             *)
nft_tunnel_get_eval(p, data0) ==
    /\ expr.set
    /\ uaf' = IF skb[p] = 0 THEN uaf ELSE Touch(skb[p])
    /\ last' = [op |-> "get_eval", dst |-> skb[p], data0 |-> data0,
                regs |-> GetEvalRegs(expr, skb_tunnel_info(p),
                                     [data |-> data0,
                                      verdict |-> "NFT_CONTINUE",
                                      warned |-> FALSE])]
    /\ UNCHANGED <<build, pc, objs, heap, skb, expr, nlmsg>>

-----------------------------------------------------------------------------
(* Inputs *)

(* configurations of the object *)
IpNests ==
    {[IP_SRC |-> s, IP_DST |-> d] : s \in Opt({1}), d \in Opt({1})}
      \ {[IP_SRC |-> {1}, IP_DST |-> {}]}

Ip6Nests ==
    {[IP6_SRC |-> {}, IP6_DST |-> {}, IP6_FLOWLABEL |-> {}],
     [IP6_SRC |-> {}, IP6_DST |-> {1}, IP6_FLOWLABEL |-> {}],
     [IP6_SRC |-> {1}, IP6_DST |-> {1}, IP6_FLOWLABEL |-> {1}]}

VxlanNests == {[VXLAN_GBP |-> g] : g \in Opt({1})}

ErspanNest(v, i, h, d) ==
    [ERSPAN_VERSION |-> v, ERSPAN_V1_INDEX |-> i,
     ERSPAN_V2_HWID |-> h, ERSPAN_V2_DIR |-> d]

ErspanNests ==
    {ErspanNest({}, {1}, {}, {}),
     ErspanNest({1}, {1}, {}, {}),
     ErspanNest({1}, {}, {}, {}),
     ErspanNest({2}, {}, {1}, {1}),
     ErspanNest({2}, {}, {1}, {}),
     ErspanNest({3}, {1}, {1}, {1})}

OptsNests ==
    {[NoOptsAttrs EXCEPT !.OPTS_VXLAN = v] : v \in Opt(VxlanNests)}
      \cup {[NoOptsAttrs EXCEPT !.OPTS_ERSPAN = {e}] : e \in ErspanNests}
      \cup {[NoOptsAttrs EXCEPT !.OPTS_VXLAN = {[VXLAN_GBP |-> {1}]},
                                !.OPTS_ERSPAN = {e}] :
               e \in {ErspanNest({1}, {1}, {}, {}), ErspanNest({3}, {}, {}, {})}}

CfgTrees ==
    [ID : Opt(1..MaxId),
     IP : Opt(IpNests),
     IP6 : Opt(Ip6Nests),
     SPORT : Opt({1}),
     DPORT : Opt({1}),
     FLAGS : Opt({0, 1, 6, 8}),
     TOS : Opt({1}),
     TTL : Opt({1}),
     OPTS : Opt(OptsNests)]

(* the plain configurations: an id and an IPv4 destination *)
PlainTree(i) ==
    [ID |-> {i}, IP |-> {[IP_SRC |-> {}, IP_DST |-> {1}]}, IP6 |-> {},
     SPORT |-> {}, DPORT |-> {}, FLAGS |-> {}, TOS |-> {}, TTL |-> {},
     OPTS |-> {}]

(* configurations of the read expression: the supported values and those  *)
(* that differ from them above the low 8 bits                              *)
AttrVals == 0..3 \cup {256 + k : k \in 0..WrapSpan}

GetTrees == [KEY : Opt(AttrVals), DREG : Opt({1}), MODE : Opt(AttrVals)]

PlainGetTrees ==
    [KEY : {{NFT_TUNNEL_PATH}, {NFT_TUNNEL_ID}},
     DREG : {{1}},
     MODE : {{}, {NFT_TUNNEL_MODE_RX}, {NFT_TUNNEL_MODE_TX}}]

(* what a register holds before the expression runs *)
RegVals == {77}

-----------------------------------------------------------------------------
(* Specifications *)

(* rx: the packets that arrive from a tunnel device, with its metadata *)
InitWith(rx) ==
    /\ build \in [le : BOOLEAN, dst_cache : BOOLEAN]
    /\ objs = [o \in Objs |-> [state |-> "Unconfigured", md |-> 0,
                               opts |-> ZeroOpts, id_attr |-> {}]]
    /\ skb = [p \in Pkts |-> IF p \in rx THEN RxRec(p) ELSE 0]
    /\ pc = [p \in Pkts |-> Idle]
    /\ heap = [r \in Recs |->
                 IF r \in {RxRec(p) : p \in rx}
                 THEN [metadata_dst_alloc([q \in Recs |-> NoRec], r)[r]
                         EXCEPT !.tun_info = RxInfo(RxTunId)]
                 ELSE NoRec]
    /\ expr = [set |-> FALSE, key |-> 0, mode |-> 0]
    /\ nlmsg = {}
    /\ uaf = FALSE
    /\ last = [op |-> "none"]

(* packets are alike: the first k of them arrive with metadata *)
Init == \E k \in 0..NPkts : InitWith(1..k)

InitCodec == InitWith({})

(* where no allocation fails, CONFIG_DST_CACHE changes nothing *)
InitRead == Init /\ build.dst_cache

(* the codec: object 1 is configured, dumped, and object 2 is configured  *)
(* from the dump                                                           *)
CfgInit ==
    /\ objs[1].state = "Unconfigured"
    /\ \E tb \in CfgTrees, a, c \in BOOLEAN : nft_tunnel_obj_init(1, tb, a, c)
CfgDump == \E room \in BOOLEAN : nft_tunnel_obj_dump(1, room)
CfgReInit ==
    /\ Has(nlmsg)
    /\ \E a, c \in BOOLEAN : nft_tunnel_obj_init(2, Val(nlmsg).tb, a, c)

NextCodec == CfgInit \/ CfgDump \/ CfgReInit

SpecCodec == InitCodec /\ [][NextCodec]_vars

(* objects and packets: the records' lifetime *)
(* objects are alike: they are configured in the order of their numbers *)
IsNextObj(o) == \A q \in Objs : q < o => objs[q].state # "Unconfigured"

ObjInit == \E o \in Objs, a, c \in BOOLEAN :
              IsNextObj(o) /\ nft_tunnel_obj_init(o, PlainTree(1), a, c)
ObjDestroy == \E o \in Objs : nft_tunnel_obj_destroy(o)
ObjEval == \E p \in Pkts, o \in Objs : nft_tunnel_obj_eval(p, o)
Release == \E p \in Pkts : PktRelease(p)

Next == ObjInit \/ ObjDestroy \/ ObjEval \/ Release

Spec == Init /\ [][Next]_vars

(* the evals of several packets, step by step, next to each other and to  *)
(* the packets' releases                                                   *)
ConcDrop == \E p \in Pkts, o \in Objs : EvalDrop(p, o)
ConcHold == \E p \in Pkts : EvalHold(p)
ConcSet == \E p \in Pkts : EvalSet(p)

NextConc == ObjInit \/ ConcDrop \/ ConcHold \/ ConcSet \/ Release

SpecConc == Init /\ [][NextConc]_vars

(* objects, packets and the read expression *)
GetInit == ~expr.set /\ \E tb \in PlainGetTrees : nft_tunnel_get_init(tb, TRUE)
GetEval == \E p \in Pkts, d \in RegVals : nft_tunnel_get_eval(p, d)

ObjInitId == \E o \in Objs, i \in 1..MaxId :
                 IsNextObj(o) /\ nft_tunnel_obj_init(o, PlainTree(i), TRUE, TRUE)

NextRead == ObjInitId \/ ObjEval \/ GetInit \/ GetEval

SpecRead == InitRead /\ [][NextRead]_vars

(* the read expression's setup over the wide attribute values *)
GetInitAny ==
    ~expr.set /\ \E tb \in GetTrees, ok \in BOOLEAN : nft_tunnel_get_init(tb, ok)

NextSetup == GetInitAny \/ Release \/ GetEval

SpecSetup == InitRead /\ [][NextSetup]_vars

-----------------------------------------------------------------------------
(* Properties *)

Holders(r) == {p \in Pkts : skb[p] = r}
Built == {o \in Objs : objs[o].state \in {"Ready", "Destroyed"}}

(* C1: a record a packet holds is never freed and never touched after its  *)
(* free, whether or not the object that built it was destroyed; an         *)
(* object's record is freed exactly when the object is destroyed and no    *)
(* packet holds the record any more, and it is freed once.                 *)
C1_RecordOutlivesObject ==
    /\ ~uaf
    /\ \A p \in Pkts : skb[p] # 0 => heap[skb[p]].st = "live"
    /\ \A o \in Built :
         LET r == objs[o].md IN
         /\ heap[r].frees <= 1
         /\ heap[r].st = "freed" <=>
              (objs[o].state = "Destroyed" /\ Holders(r) = {})
         /\ heap[r].st = "freed" => heap[r].frees = 1

(* C1, its case: the object is destroyed and every packet still holds its  *)
(* record, which is live                                                   *)
C1_Witness ==
    \E o \in Objs :
       /\ objs[o].state = "Destroyed"
       /\ Holders(objs[o].md) = Pkts
       /\ heap[objs[o].md].st = "live"

(* the packets whose eval has taken its reference of record r and has not *)
(* stored it in the packet yet                                             *)
Attaching(r) == {p \in Pkts : pc[p].at = "set" /\ objs[pc[p].obj].md = r}

(* the references of record r before and after a step *)
RefDelta(r) == heap'[r].refcnt - heap[r].refcnt

C8_InitFailureUnwound ==
    /\ \A o \in Objs : objs[o].state = "Failed" => objs[o].md = 0
    /\ (last.op = "obj_init" /\ last.err # "OK") =>
          \A r \in last.allocated : heap[r].st = "freed" /\ heap[r].frees = 1
    /\ \A o \in Objs :
          heap[ObjRec(o)].st = "live" =>
             objs[o].state = "Ready" /\ objs[o].md = ObjRec(o)

(* C8, its case: dst_cache_init failed after the record was allocated *)
C8_Witness ==
    /\ last.op = "obj_init"
    /\ last.err = "ENOMEM"
    /\ last.allocated # {}

-----------------------------------------------------------------------------
(* The read expression's properties.  In a state that nft_tunnel_get_eval  *)
(* led to, last.dst is the dst the packet held, last.data0 the register's   *)
(* content before and last.regs the registers after.                       *)

Seen == IF last.dst = 0 THEN {} ELSE {heap[last.dst].tun_info}

(* the 32-bit tunnel id record r was built with *)
IdOf(r) ==
    IF r \in {RxRec(p) : p \in Pkts} THEN RxTunId
    ELSE Val(objs[CHOOSE o \in Objs : ObjRec(o) = r].id_attr)

(* the directionality test, in the words of the specification *)
Counts(mode, tun_info) ==
    ~ \/ mode = NFT_TUNNEL_MODE_RX /\ "TX" \in tun_info.mode
      \/ mode = NFT_TUNNEL_MODE_TX /\ "TX" \notin tun_info.mode

(* C5: the ID fact.  Without metadata, or with metadata that fails the     *)
(* directionality test, the verdict is the rule-stop and the register is   *)
(* as before; otherwise the register holds the tunnel id and the verdict   *)
(* is untouched.                                                            *)
C5_IdFact ==
    (last.op = "get_eval" /\ expr.key = NFT_TUNNEL_ID) =>
       IF Has(Seen) /\ Counts(expr.mode, Val(Seen))
       THEN /\ last.regs.data = IdOf(last.dst)
            /\ last.regs.verdict = "NFT_CONTINUE"
       ELSE /\ last.regs.verdict = "NFT_BREAK"
            /\ last.regs.data = last.data0

(* C5, its case: the filter is RX and the packet holds TX-mode metadata *)
C5_Witness ==
    /\ last.op = "get_eval"
    /\ expr.key = NFT_TUNNEL_ID
    /\ expr.mode = NFT_TUNNEL_MODE_RX
    /\ Has(Seen)
    /\ "TX" \in Val(Seen).mode
    /\ last.regs.verdict = "NFT_BREAK"

(* C6: the PATH fact.  The register's byte is 1 if the packet holds        *)
(* metadata that passes the directionality test and 0 if not, and the      *)
(* verdict is never the rule-stop.                                          *)
C6_PathFact ==
    (last.op = "get_eval" /\ expr.key = NFT_TUNNEL_PATH) =>
       /\ nft_reg_load8(last.regs.data) =
             (IF Has(Seen) /\ Counts(expr.mode, Val(Seen)) THEN 1 ELSE 0)
       /\ last.regs.data \in {nft_reg_store8(0), nft_reg_store8(1)}
       /\ last.regs.verdict = "NFT_CONTINUE"

(* C6, its case: no metadata, the register's byte is 0 *)
C6_Witness ==
    /\ last.op = "get_eval"
    /\ expr.key = NFT_TUNNEL_PATH
    /\ last.dst = 0
    /\ nft_reg_load8(last.regs.data) = 0
    /\ last.regs.verdict = "NFT_CONTINUE"

(* C9: a packet that holds the record of an object configured with tunnel  *)
(* id X shows the read expression TX-mode metadata with id X: PATH gives   *)
(* true for the filters NONE and TX and false for RX; ID gives X for NONE  *)
(* and TX and the rule-stop for RX.                                         *)
C9_ObjectToReader ==
    \A o \in Built :
      (last.op = "get_eval" /\ last.dst = objs[o].md) =>
         LET X == Val(objs[o].id_attr)
             tx == expr.mode \in {NFT_TUNNEL_MODE_NONE, NFT_TUNNEL_MODE_TX}
         IN
         IF expr.key = NFT_TUNNEL_PATH
         THEN /\ nft_reg_load8(last.regs.data) = (IF tx THEN 1 ELSE 0)
              /\ last.regs.verdict = "NFT_CONTINUE"
         ELSE IF tx
              THEN last.regs.data = X /\ last.regs.verdict = "NFT_CONTINUE"
              ELSE last.regs.verdict = "NFT_BREAK"

(* C9, its case: the filter is TX, the fact ID, the object's id is not the *)
(* one the packets arrived with                                            *)
C9_Witness ==
    \E o \in Objs :
       /\ objs[o].state = "Ready"
       /\ last.op = "get_eval"
       /\ last.dst = objs[o].md
       /\ expr.key = NFT_TUNNEL_ID
       /\ expr.mode = NFT_TUNNEL_MODE_TX
       /\ Val(objs[o].id_attr) # RxTunId
       /\ last.regs.data = Val(objs[o].id_attr)

(* C7: nft_tunnel_get_init fails for every key attribute that is neither   *)
(* PATH nor ID and for every mode attribute that is none of NONE, RX, TX;  *)
(* an accepted expression has such a key and mode, and evaluation never    *)
(* takes the unknown-fact branch.                                           *)
C7_SetupRejectsUnknown ==
    /\ (last.op = "get_init" /\ Has(last.tb.KEY)
          /\ Val(last.tb.KEY) \notin {NFT_TUNNEL_PATH, NFT_TUNNEL_ID})
         => last.err # "OK"
    /\ (last.op = "get_init" /\ Has(last.tb.MODE)
          /\ Val(last.tb.MODE) \notin {NFT_TUNNEL_MODE_NONE,
                                      NFT_TUNNEL_MODE_RX, NFT_TUNNEL_MODE_TX})
         => last.err # "OK"
    /\ expr.set => /\ expr.key \in {NFT_TUNNEL_PATH, NFT_TUNNEL_ID}
                   /\ expr.mode \in {NFT_TUNNEL_MODE_NONE, NFT_TUNNEL_MODE_RX,
                                     NFT_TUNNEL_MODE_TX}
    /\ last.op = "get_eval" => ~last.regs.warned

-----------------------------------------------------------------------------
(* The codec's properties: object 1 is configured, object 2 from its dump *)

(* C3: nft_tunnel_obj_init fails and builds nothing when the configuration *)
(* holds both the IP and the IP6 nest, or an options nest with both the    *)
(* VXLAN and the ERSPAN nest.                                               *)
C3_MutualExclusivity ==
    (last.op = "obj_init" /\ (last.ip_and_ip6 \/ last.vxlan_and_erspan)) =>
       last.err # "OK" /\ last.allocated = {}

(* the options nest as nft_tunnel_obj_opts_init accepts it, for the        *)
(* options the object holds                                                *)
OptsNestOf(opts) ==
    IF "VXLAN_OPT" \in opts.flags
    THEN [NoOptsAttrs EXCEPT
            !.OPTS_VXLAN = {[VXLAN_GBP |-> nla_put_be32(htonl(opts.u.gbp))]}]
    ELSE IF opts.u.version = ERSPAN_VERSION
    THEN [NoOptsAttrs EXCEPT
            !.OPTS_ERSPAN =
               {ErspanNest(nla_put_be32(htonl(ERSPAN_VERSION)),
                           nla_put_be32(opts.u.index), {}, {})}]
    ELSE [NoOptsAttrs EXCEPT
            !.OPTS_ERSPAN =
               {ErspanNest(nla_put_be32(htonl(ERSPAN_VERSION2)), {},
                           nla_put_u8(opts.u.hwid), nla_put_u8(opts.u.dir))}]

(* C4: the dump holds an options nest exactly when the object has options, *)
(* and then the nest is the one init accepts for them.                      *)
C4_OptsDumpShape ==
    Has(nlmsg) =>
       LET opts == objs[Val(nlmsg).obj].opts
           nest == Val(nlmsg).tb.OPTS
       IN /\ Has(nest) <=> opts.flags # {}
          /\ Has(nest) => Val(nest) = OptsNestOf(opts)

(* C2: the dump of a configured object is accepted by init, and gives the  *)
(* same tunnel key and options as the object has.                           *)
C2_RoundTrip ==
    (last.op = "obj_init" /\ objs[2].state # "Unconfigured"
       /\ last.err # "ENOMEM") =>
       /\ last.err = "OK"
       /\ heap[objs[2].md].tun_info = heap[objs[1].md].tun_info
       /\ objs[2].opts = objs[1].opts

=============================================================================
